---- MODULE Spec2Model ----
(***************************************************************************)
(* A model of obs_bridge_dynamic_fps.py: OBSVirtualCameraBridge.           *)
(*                                                                         *)
(* Two units run concurrently: the ingest coroutine (start ->              *)
(* connect_websocket -> process_frame -> detect_fps) and the output        *)
(* thread (virtual_camera_thread).  They share frame_queue, detected_fps,  *)
(* current_resolution and running.                                         *)
(*                                                                         *)
(* Units.  Time is counted in ticks of 1/30 ms (TicksPerSecond = 30000),   *)
(* so that 41.6 ms, 1 ms and 1/30 s are whole numbers of ticks.  Frame     *)
(* rates are counted in tenths of a frame per second (30.0 fps = 300), the *)
(* granularity round(x, 1) produces.  The arithmetic of detect_fps is      *)
(* done exactly on these integers; the rounding error of the binary        *)
(* floating point the program uses is not modelled.                        *)
(*                                                                         *)
(* The diagnostic counters (frame_count, fps_counter, last_fps_time,       *)
(* output_fps_count, last_output_fps_time) only feed print statements and  *)
(* are left out.                                                           *)
(***************************************************************************)
EXTENDS Integers, Sequences, FiniteSets, TLC

\* ------------------------------------------------------------ constants

TicksPerSecond == 30 * 1000

\* queue.Queue(maxsize=10)
QueueMax == 10
\* self.fps_detection_samples = 30
fps_detection_samples == 30
\* if len(self.frame_times) >= 10
MinSamples == 10
\* self.detected_fps = 30.0, in tenths of a frame per second
DefaultFps == 300
\* abs(new_fps - self.detected_fps) > 2, in tenths of a frame per second
FpsThreshold == 20
\* self.current_resolution = (1280, 720)
DefaultResolution == <<1280, 720>>
\* the other resolution the source switches to
OtherResolution == <<640, 480>>
\* await asyncio.sleep(2) and await asyncio.sleep(3)
StartSleep == 2 * TicksPerSecond
RetrySleep == 3 * TicksPerSecond

\* ------------------------------------------------------------ bounds

\* binary payloads the transport delivers in one behaviour
MaxPayloads == 12
\* the source changes resolution every ResPeriod payloads
ResPeriod == 3
\* calls of detect_fps in a behaviour of SpecRate
MaxObs == 33
\* changes of the arrival interval in a behaviour of SpecRate
MaxSwitches == 1
\* cycles of the output loop in a behaviour of SpecPace
MaxCycles == 4

\* ------------------------------------------------------------ state

VARIABLES
    running,             \* self.running
    frame_queue,         \* self.frame_queue, oldest first
    last_frame,          \* self.last_frame
    current_resolution,  \* self.current_resolution
    detected_fps,        \* self.detected_fps (tenths of fps)
    frame_times,         \* self.frame_times (ticks)
    last_frame_time,     \* self.last_frame_time (ticks)
    virtual_cam,         \* the pyvirtualcam.Camera the output thread holds
    now,                 \* time.time() (ticks)
    ipc,                 \* where the ingest coroutine is
    iframe,              \* process_frame's local frame
    fps_changed,         \* process_frame's local fps_changed
    received,            \* binary payloads delivered so far
    payload,             \* the payload process_frame is working on
    faults,              \* connects refused and connections closed so far
    stream,              \* the input the transport delivers, one of Streams
    resChanges,          \* times process_frame published a new resolution
    offersSinceTake,     \* frames stored since the output thread's last take (0, 1, 2+)
    ppc,                 \* where the output thread is
    size,                \* virtual_camera_thread's locals (width, height)
    current_fps,         \* virtual_camera_thread's local current_fps
    frame_time,          \* virtual_camera_thread's local frame_time (ticks)
    last_time,           \* virtual_camera_thread's local last_time
    pframe,              \* virtual_camera_thread's local frame
    emitted,             \* the last frame cam.send accepted
    sendAt,              \* SpecPace: when cam.send was last called, and the call before
    cycles,              \* SpecPace: cycles of the output loop so far
    obs,                 \* SpecRate: calls of detect_fps, the last interval, its changes
    prior                \* where the output thread of an earlier start() is

estVars  == <<detected_fps, frame_times, last_frame_time>>
ingVars  == <<ipc, iframe, fps_changed, received, payload, faults, stream, resChanges>>
pacVars  == <<ppc, size, current_fps, frame_time, pframe, virtual_cam, emitted>>
paceVars == <<last_time, sendAt, cycles>>
vars == <<running, frame_queue, last_frame, current_resolution, estVars, now,
          ingVars, offersSinceTake, pacVars, paceVars, obs, prior>>

\* ------------------------------------------------------------ values

\* self.last_frame = None
NoFrame == [id |-> -1, shape |-> <<0, 0>>, gen |-> 0]
\* default_frame = np.zeros((height, width, 3)): the placeholder, in the sink's size
DefaultFrame(sz) == [id |-> 0, shape |-> sz, gen |-> 0]
\* what the sink last received: the frame's id, its shape as sent, its shape as
\* decoded, and how many resolution changes ingest had published up to that frame
NoEmission == [id |-> -1, shape |-> <<0, 0>>, native |-> <<0, 0>>, gen |-> 0]
\* the camera: its configuration, how often one was opened, and how many
\* resolution changes ingest had published when it was opened
NoCam == [open |-> FALSE, width |-> 0, height |-> 0, fps |-> 0, opens |-> 0, gen |-> 0]

Abs(x) == IF x < 0 THEN -x ELSE x
Min(a, b) == IF a < b THEN a ELSE b
RECURSIVE Sum(_)
Sum(s) == IF s = <<>> THEN 0 ELSE Head(s) + Sum(Tail(s))

\* round(p / q) to the nearest integer, ties to the even one (q > 0, p >= 0)
RoundHalfEven(p, q) ==
    LET f == p \div q
        r == p % q
    IN  IF 2 * r < q THEN f
        ELSE IF 2 * r > q THEN f + 1
        ELSE IF f % 2 = 0 THEN f ELSE f + 1

\* ------------------------------------------------------------ detect_fps

\* detect_fps with the interval test written >= 0.001
DetectFpsLoose(t) ==
    LET frame_interval == t - last_frame_time
        appended == Append(frame_times, frame_interval)
        window == IF Len(appended) > fps_detection_samples
                  THEN Tail(appended) ELSE appended
        n == Len(window)
        total == Sum(window)
        differs == Abs(10 * n * TicksPerSecond - detected_fps * total)
                     > FpsThreshold * total
        rounded == RoundHalfEven(10 * n * TicksPerSecond, total)
    IN  IF frame_interval >= TicksPerSecond \div 1000
        THEN IF n >= MinSamples /\ differs
             THEN [last_frame_time |-> t, frame_times |-> window,
                   detected_fps |-> rounded, ret |-> TRUE]
             ELSE [last_frame_time |-> t, frame_times |-> window,
                   detected_fps |-> detected_fps, ret |-> FALSE]
        ELSE [last_frame_time |-> t, frame_times |-> frame_times,
              detected_fps |-> detected_fps, ret |-> FALSE]

\* detect_fps called at time t: the new estimator fields and the return value
DetectFps(t) ==
    LET frame_interval == t - last_frame_time
        appended == Append(frame_times, frame_interval)
        window == IF Len(appended) > fps_detection_samples
                  THEN Tail(appended) ELSE appended
        n == Len(window)
        total == Sum(window)
        \* new_fps = 1.0 / mean(window) = n * TicksPerSecond / total frames per second
        differs == Abs(10 * n * TicksPerSecond - detected_fps * total)
                     > FpsThreshold * total
        rounded == RoundHalfEven(10 * n * TicksPerSecond, total)
    IN  IF frame_interval > TicksPerSecond \div 1000
        THEN IF n >= MinSamples /\ differs
             THEN [last_frame_time |-> t, frame_times |-> window,
                   detected_fps |-> rounded, ret |-> TRUE]
             ELSE [last_frame_time |-> t, frame_times |-> window,
                   detected_fps |-> detected_fps, ret |-> FALSE]
        ELSE [last_frame_time |-> t, frame_times |-> frame_times,
              detected_fps |-> detected_fps, ret |-> FALSE]

\* the estimator fields after detect_fps at the current time
Observe ==
    LET r == DetectFps(now)
    IN  /\ last_frame_time' = r.last_frame_time
        /\ frame_times' = r.frame_times
        /\ detected_fps' = r.detected_fps
        /\ fps_changed' = r.ret

\* ------------------------------------------------------------ the input

\* the resolution of the k-th binary payload: it changes every ResPeriod payloads
PayloadRes(k) ==
    LET other == IF stream.first = DefaultResolution
                 THEN OtherResolution ELSE DefaultResolution
    IN  IF ((k - 1) \div ResPeriod) % 2 = 0 THEN stream.first ELSE other

\* 41.6 ms (24 fps) and 1/30 s (30 fps), in ticks
ArrivalIntervals == {1248, 1000}

\* a stall of the source: five minutes without a payload
StallGap == 300 * TicksPerSecond

\* The inputs: the resolution of the first payload, the arrival interval, which
\* payload does not decode (0: none), after how many payloads the connection
\* closes, how many connects are refused before one succeeds, and which payload
\* arrives after a stall (0: none).
Streams ==
    [first : {DefaultResolution, OtherResolution}, cadence : ArrivalIntervals,
     badAt : {0}, closeAt : {0}, refused : {0}, stallAt : {0}]
    \cup {[first |-> OtherResolution, cadence |-> 1248,
           badAt |-> 2, closeAt |-> 0, refused |-> 0, stallAt |-> 0],
          [first |-> OtherResolution, cadence |-> 1248,
           badAt |-> 0, closeAt |-> 3, refused |-> 1, stallAt |-> 0]}

\* ------------------------------------------------------------ start, stop

\* start(), up to the thread's start
Start ==
    /\ ipc = "init"
    /\ running' = TRUE
    /\ ppc' = "start"
    /\ ipc' = "sleep"
    /\ UNCHANGED <<frame_queue, last_frame, current_resolution, estVars, now,
                   iframe, fps_changed, received, payload, faults, stream,
                   resChanges, offersSinceTake, size, current_fps, frame_time,
                   pframe, virtual_cam, emitted, paceVars, obs, prior>>

\* stop()
Stop ==
    /\ running
    /\ running' = FALSE
    /\ UNCHANGED <<frame_queue, last_frame, current_resolution, estVars, now,
                   ingVars, offersSinceTake, pacVars, paceVars, obs, prior>>

\* what an ingest step that touches neither the queue nor the estimator leaves alone
IngestControlOnly ==
    UNCHANGED <<running, frame_queue, last_frame, current_resolution, estVars,
                iframe, fps_changed, stream, resChanges, offersSinceTake,
                pacVars, paceVars, obs, prior>>

\* start(): await asyncio.sleep(2)
IngestSleep ==
    /\ ipc = "sleep"
    /\ now' = now + StartSleep
    /\ ipc' = "loop"
    /\ UNCHANGED <<received, payload, faults>>
    /\ IngestControlOnly

\* start(): while self.running
IngestLoop ==
    /\ ipc = "loop"
    /\ ipc' = IF running THEN "connect" ELSE "done"
    /\ UNCHANGED <<now, received, payload, faults>>
    /\ IngestControlOnly

\* connect_websocket(): websockets.connect succeeds, or raises and the function returns
IngestConnect ==
    /\ ipc = "connect"
    /\ IF faults >= stream.refused
       THEN ipc' = "recv" /\ faults' = faults
       ELSE ipc' = "closed" /\ faults' = faults + 1
    /\ UNCHANGED <<now, received, payload>>
    /\ IngestControlOnly

\* connect_websocket(): async for message in websocket, one message
IngestMessage ==
    /\ ipc = "recv"
    /\ \E kind \in {"bytes", "text"} :
          IF ~running
          THEN \* if not self.running: break
               /\ ipc' = "closed"
               /\ UNCHANGED <<now, received, payload>>
          ELSE IF kind = "text"
          THEN /\ ipc' = "recv"
               /\ UNCHANGED <<now, received, payload>>
          ELSE /\ received < MaxPayloads
               /\ ipc' = "observe"
               /\ now' = now + stream.cadence
                              + (IF received + 1 = stream.stallAt THEN StallGap ELSE 0)
               /\ received' = received + 1
               /\ payload' = IF received + 1 = stream.badAt THEN "bad" ELSE "frame"
    /\ UNCHANGED faults
    /\ IngestControlOnly

\* connect_websocket(): the connection closes or fails while a message is awaited
IngestClose ==
    /\ ipc = "recv"
    /\ received = stream.closeAt
    /\ faults = stream.refused
    /\ faults' = faults + 1
    /\ ipc' = "closed"
    /\ UNCHANGED <<now, received, payload>>
    /\ IngestControlOnly

\* a retry that gives up after the second failure
IngestClosedLimited ==
    /\ ipc = "closed"
    /\ IF ~running
       THEN ipc' = "loop" /\ now' = now
       ELSE IF faults < 2
       THEN ipc' = "loop" /\ now' = now + RetrySleep
       ELSE ipc' = "done" /\ now' = now
    /\ UNCHANGED <<received, payload, faults>>
    /\ IngestControlOnly

\* start(): connect_websocket returned; if self.running: sleep(3)
IngestClosed ==
    /\ ipc = "closed"
    /\ IF running
       THEN ipc' = "loop" /\ now' = now + RetrySleep
       ELSE ipc' = "loop" /\ now' = now
    /\ UNCHANGED <<received, payload, faults>>
    /\ IngestControlOnly

\* ------------------------------------------------------------ process_frame

\* what a step of process_frame leaves alone besides the fields it names
ProcessFrameOnly ==
    UNCHANGED <<running, last_frame, now, received, payload, faults, stream,
                pacVars, paceVars, obs, prior>>

\* fps_changed = self.detect_fps()
IngestObserve ==
    /\ ipc = "observe"
    /\ Observe
    /\ ipc' = "decode"
    /\ UNCHANGED <<frame_queue, current_resolution, iframe, resChanges, offersSinceTake>>
    /\ ProcessFrameOnly

\* a decode whose failure ends the connection instead of being skipped
IngestDecodeFatal ==
    /\ ipc = "decode"
    /\ IF payload = "bad"
       THEN /\ ipc' = "closed"
            /\ UNCHANGED <<current_resolution, iframe, resChanges>>
       ELSE LET new_resolution == PayloadRes(received)
                resolution_changed == new_resolution # current_resolution
                gen == IF resolution_changed THEN resChanges + 1 ELSE resChanges
            IN  /\ iframe' = [id |-> received, shape |-> new_resolution, gen |-> gen]
                /\ resChanges' = gen
                /\ current_resolution' = new_resolution
                /\ ipc' = "put"
    /\ UNCHANGED <<frame_queue, estVars, fps_changed, offersSinceTake>>
    /\ ProcessFrameOnly

\* Image.open and cvtColor, then the resolution check; a payload that does not
\* decode raises, and process_frame's except returns
IngestDecode ==
    /\ ipc = "decode"
    /\ IF payload = "bad"
       THEN /\ ipc' = "recv"
            /\ UNCHANGED <<current_resolution, iframe, resChanges>>
       ELSE LET new_resolution == PayloadRes(received)
                resolution_changed == new_resolution # current_resolution
                gen == IF resolution_changed THEN resChanges + 1 ELSE resChanges
            IN  /\ iframe' = [id |-> received, shape |-> new_resolution, gen |-> gen]
                /\ resChanges' = gen
                /\ current_resolution' = new_resolution
                /\ ipc' = "put"
    /\ UNCHANGED <<frame_queue, estVars, fps_changed, offersSinceTake>>
    /\ ProcessFrameOnly

\* a put that waits for room, as self.frame_queue.put(frame) would
IngestPutBlocking ==
    /\ ipc = "put"
    /\ Len(frame_queue) < QueueMax
    /\ frame_queue' = Append(frame_queue, iframe)
    /\ offersSinceTake' = Min(offersSinceTake + 1, 2)
    /\ ipc' = "recv"
    /\ UNCHANGED <<current_resolution, estVars, iframe, fps_changed, resChanges>>
    /\ ProcessFrameOnly

\* self.frame_queue.put_nowait(frame); queue.Full leads to the except branch
IngestPut ==
    /\ ipc = "put"
    /\ IF Len(frame_queue) < QueueMax
       THEN /\ frame_queue' = Append(frame_queue, iframe)
            /\ offersSinceTake' = Min(offersSinceTake + 1, 2)
            /\ ipc' = "recv"
       ELSE /\ ipc' = "evict"
            /\ UNCHANGED <<frame_queue, offersSinceTake>>
    /\ UNCHANGED <<current_resolution, estVars, iframe, fps_changed, resChanges>>
    /\ ProcessFrameOnly

\* except queue.Full: self.frame_queue.get_nowait(); queue.Empty is passed over
IngestEvict ==
    /\ ipc = "evict"
    /\ IF frame_queue # <<>>
       THEN /\ frame_queue' = Tail(frame_queue)
            /\ ipc' = "reput"
       ELSE /\ ipc' = "recv"
            /\ UNCHANGED frame_queue
    /\ UNCHANGED <<current_resolution, estVars, iframe, fps_changed, resChanges,
                   offersSinceTake>>
    /\ ProcessFrameOnly

\* the second self.frame_queue.put_nowait(frame); a queue.Full here reaches
\* process_frame's outer except
IngestRePut ==
    /\ ipc = "reput"
    /\ IF Len(frame_queue) < QueueMax
       THEN /\ frame_queue' = Append(frame_queue, iframe)
            /\ offersSinceTake' = Min(offersSinceTake + 1, 2)
       ELSE UNCHANGED <<frame_queue, offersSinceTake>>
    /\ ipc' = "recv"
    /\ UNCHANGED <<current_resolution, estVars, iframe, fps_changed, resChanges>>
    /\ ProcessFrameOnly

\* ------------------------------------------------------------ virtual_camera_thread

\* frame_time = 1.0 / current_fps, in ticks (whole for the rates SpecPace uses)
FrameTime(fps) == (10 * TicksPerSecond) \div fps

\* a rate check that never takes the new estimate
AdaptFpsNever(cur, det) == cur

\* a rate check that takes the estimate only when it is more than 5.0 fps away
AdaptFpsCoarse(cur, det) == IF Abs(det - cur) > 50 THEN det ELSE cur

\* if abs(self.detected_fps - current_fps) > 2: current_fps = self.detected_fps
AdaptFps(cur, det) == IF Abs(det - cur) > FpsThreshold THEN det ELSE cur

\* a take that returns the newest pending frame and drops the older ones
TakeLatestWins(q, last, default) ==
    IF q # <<>>
    THEN [frame |-> q[Len(q)], queue |-> <<>>, last |-> q[Len(q)]]
    ELSE [frame |-> IF last # NoFrame THEN last ELSE default,
          queue |-> q, last |-> last]

\* a take that falls back to the default frame whenever nothing is pending
TakeOrDefault(q, last, default) ==
    IF q # <<>>
    THEN [frame |-> Head(q), queue |-> Tail(q), last |-> Head(q)]
    ELSE [frame |-> default, queue |-> q, last |-> last]

\* a take that returns the newest pending frame and leaves the older ones pending
TakeNewestFirst(q, last, default) ==
    IF q # <<>>
    THEN [frame |-> q[Len(q)], queue |-> SubSeq(q, 1, Len(q) - 1), last |-> q[Len(q)]]
    ELSE [frame |-> IF last # NoFrame THEN last ELSE default,
          queue |-> q, last |-> last]

\* frame_queue.get_nowait(), or on queue.Empty the last frame, or the default frame
TakeOrRepeat(q, last, default) ==
    IF q # <<>>
    THEN [frame |-> Head(q), queue |-> Tail(q), last |-> Head(q)]
    ELSE [frame |-> IF last # NoFrame THEN last ELSE default,
          queue |-> q, last |-> last]

\* a frame sent as it is, without the resize
ConformNone(frame, sz) == frame

\* if frame.shape[:2] != (height, width): frame = cv2.resize(frame, (width, height))
Conform(frame, sz) == IF frame.shape # sz THEN [frame EXCEPT !.shape = sz] ELSE frame

\* what a step of the output thread leaves alone besides the fields it names
PacerOnly ==
    UNCHANGED <<running, current_resolution, estVars, ingVars, obs, prior>>

\* width, height = self.current_resolution; current_fps = self.detected_fps;
\* pyvirtualcam.Camera(...) opens or raises; frame_time = 1.0 / current_fps
PacerOpen ==
    /\ ppc = "start"
    /\ size' = current_resolution
    /\ current_fps' = detected_fps
    /\ \E ok \in BOOLEAN :
          IF ok /\ detected_fps # 0
          THEN /\ virtual_cam' = [open |-> TRUE,
                                  width |-> current_resolution[1],
                                  height |-> current_resolution[2],
                                  fps |-> detected_fps \div 10,
                                  opens |-> virtual_cam.opens + 1,
                                  gen |-> resChanges]
               /\ frame_time' = FrameTime(detected_fps)
               /\ ppc' = "loop"
          ELSE /\ ppc' = "failed"
               /\ UNCHANGED <<virtual_cam, frame_time>>
    /\ UNCHANGED <<frame_queue, last_frame, offersSinceTake, pframe, emitted>>
    /\ PacerOnly

\* while self.running; leaving the loop leaves the with block, which closes the camera
PacerLoop ==
    /\ ppc = "loop"
    /\ IF running
       THEN ppc' = "adapt" /\ UNCHANGED virtual_cam
       ELSE ppc' = "stopped" /\ virtual_cam' = [virtual_cam EXCEPT !.open = FALSE]
    /\ UNCHANGED <<frame_queue, last_frame, offersSinceTake, size, current_fps,
                   frame_time, pframe, emitted>>
    /\ PacerOnly

\* a rate check that also reopens the camera at a newly published resolution
PacerAdaptReopen ==
    /\ ppc = "adapt"
    /\ current_fps' = AdaptFps(current_fps, detected_fps)
    /\ frame_time' = IF current_fps' # 0 THEN FrameTime(current_fps') ELSE frame_time
    /\ ppc' = IF current_fps' # 0 THEN "take" ELSE "stopped"
    /\ IF current_resolution # size
       THEN /\ size' = current_resolution
            /\ virtual_cam' = [open |-> current_fps' # 0,
                               width |-> current_resolution[1],
                               height |-> current_resolution[2],
                               fps |-> current_fps' \div 10,
                               opens |-> virtual_cam.opens + 1,
                               gen |-> resChanges]
       ELSE /\ size' = size
            /\ virtual_cam' = [virtual_cam EXCEPT !.open = current_fps' # 0]
    /\ UNCHANGED <<frame_queue, last_frame, offersSinceTake, pframe, emitted>>
    /\ PacerOnly

\* the rate check; 1.0 / current_fps raises for a rate of 0.0 and the except breaks
PacerAdapt ==
    /\ ppc = "adapt"
    /\ current_fps' = AdaptFps(current_fps, detected_fps)
    /\ IF current_fps' = current_fps
       THEN ppc' = "take" /\ UNCHANGED <<frame_time, virtual_cam>>
       ELSE IF current_fps' # 0
       THEN ppc' = "take" /\ frame_time' = FrameTime(current_fps') /\ UNCHANGED virtual_cam
       ELSE /\ ppc' = "stopped"
            /\ virtual_cam' = [virtual_cam EXCEPT !.open = FALSE]
            /\ UNCHANGED frame_time
    /\ UNCHANGED <<frame_queue, last_frame, offersSinceTake, size, pframe, emitted>>
    /\ PacerOnly

\* frame = self.frame_queue.get_nowait(); self.last_frame = frame; except queue.Empty
PacerTake ==
    /\ ppc = "take"
    /\ LET r == TakeOrRepeat(frame_queue, last_frame, DefaultFrame(size))
       IN  /\ pframe' = r.frame
           /\ frame_queue' = r.queue
           /\ last_frame' = r.last
           /\ offersSinceTake' = IF frame_queue # <<>> THEN 0 ELSE offersSinceTake
    /\ ppc' = "emit"
    /\ UNCHANGED <<size, current_fps, frame_time, virtual_cam, emitted>>
    /\ PacerOnly

\* a send whose failure is passed over: the loop goes on to its next cycle
PacerEmitRetry ==
    /\ ppc = "emit"
    /\ \E ok \in BOOLEAN :
          IF ok
          THEN /\ emitted' = [id |-> pframe.id,
                              shape |-> Conform(pframe, size).shape,
                              native |-> pframe.shape,
                              gen |-> pframe.gen]
               /\ ppc' = "pace"
          ELSE /\ ppc' = "loop"
               /\ UNCHANGED emitted
    /\ UNCHANGED <<frame_queue, last_frame, offersSinceTake, size, current_fps,
                   frame_time, pframe, virtual_cam>>
    /\ PacerOnly

\* the resize, the colour conversion and cam.send(frame_rgb); a send that raises
\* reaches the except, which breaks
PacerEmit ==
    /\ ppc = "emit"
    /\ \E ok \in BOOLEAN :
          IF ok
          THEN /\ emitted' = [id |-> pframe.id,
                              shape |-> Conform(pframe, size).shape,
                              native |-> pframe.shape,
                              gen |-> pframe.gen]
               /\ ppc' = "pace"
               /\ UNCHANGED virtual_cam
          ELSE /\ ppc' = "stopped"
               /\ virtual_cam' = [virtual_cam EXCEPT !.open = FALSE]
               /\ UNCHANGED emitted
    /\ UNCHANGED <<frame_queue, last_frame, offersSinceTake, size, current_fps,
                   frame_time, pframe>>
    /\ PacerOnly

\* the sleep that keeps the rate, then the next cycle
PacerPace ==
    /\ ppc = "pace"
    /\ ppc' = "loop"
    /\ UNCHANGED <<frame_queue, last_frame, offersSinceTake, size, current_fps,
                   frame_time, pframe, virtual_cam, emitted>>
    /\ PacerOnly

\* ------------------------------------------------------------ the bridge

\* the fields after OBSVirtualCameraBridge(), before start()
Constructed ==
    /\ running = FALSE
    /\ frame_queue = <<>>
    /\ last_frame = NoFrame
    /\ current_resolution = DefaultResolution
    /\ detected_fps = DefaultFps
    /\ frame_times = <<>>
    /\ last_frame_time = 0
    /\ virtual_cam = NoCam
    /\ now = 0
    /\ ipc = "init"
    /\ iframe = NoFrame
    /\ fps_changed = FALSE
    /\ received = 0
    /\ payload = "none"
    /\ faults = 0
    /\ resChanges = 0
    /\ offersSinceTake = 0
    /\ ppc = "none"
    /\ size = <<0, 0>>
    /\ current_fps = 0
    /\ frame_time = 0
    /\ last_time = 0
    /\ pframe = NoFrame
    /\ emitted = NoEmission
    /\ sendAt = [last |-> 0, prev |-> 0, fps |-> 0, prevFps |-> 0, count |-> 0]
    /\ cycles = 0
    /\ obs = [count |-> 0, interval |-> 0, switches |-> 0]
    /\ prior = "none"

\* the state after OBSVirtualCameraBridge(); the input is any of the streams
Init ==
    /\ Constructed
    /\ stream \in Streams

\* the pacing of the output loop is left to SpecPace
Untimed == UNCHANGED <<now, paceVars>>

Next ==
    \/ Start
    \/ Stop
    \/ IngestSleep
    \/ IngestLoop
    \/ IngestConnect
    \/ IngestMessage
    \/ IngestClose
    \/ IngestClosed
    \/ IngestObserve
    \/ IngestDecode
    \/ IngestPut
    \/ IngestEvict
    \/ IngestRePut
    \/ PacerOpen /\ Untimed
    \/ PacerLoop /\ Untimed
    \/ PacerAdapt /\ Untimed
    \/ PacerTake /\ Untimed
    \/ PacerEmit /\ Untimed
    \/ PacerPace /\ Untimed

Spec == Init /\ [][Next]_vars

\* ------------------------------------------------------------ the output loop, timed

\* the time the resize and the conversions before cam.send take: 0, 10 ms, 40 ms
WorkDurations == {0, 300, 1200}
\* the time cam.send takes: 0, 20 ms
SendDurations == {0, 600}

\* if elapsed < frame_time: time.sleep(frame_time - elapsed)
PaceSleep(elapsed, ft) == IF elapsed < ft THEN ft - elapsed ELSE 0

\* the opening of the camera; last_time = time.time()
TimedOpen ==
    /\ PacerOpen
    /\ last_time' = now
    /\ UNCHANGED <<now, sendAt, cycles>>

\* while self.running
TimedLoop ==
    /\ cycles < MaxCycles
    /\ PacerLoop
    /\ UNCHANGED <<now, paceVars>>

\* the rate check
TimedAdapt ==
    /\ PacerAdapt
    /\ UNCHANGED <<now, paceVars>>

\* the take, and the work on the frame up to the call of cam.send
TimedTake ==
    /\ PacerTake
    /\ \E d \in WorkDurations : now' = now + d
    /\ UNCHANGED paceVars

\* cam.send is called now and returns after the time it takes; sendAt keeps the
\* times of the last two calls the camera accepted
TimedEmit ==
    /\ PacerEmit
    /\ sendAt' = IF ppc' = "pace"
                 THEN [last |-> now, prev |-> sendAt.last, fps |-> current_fps,
                       prevFps |-> sendAt.fps, count |-> Min(sendAt.count + 1, 2)]
                 ELSE sendAt
    /\ \E d \in SendDurations : now' = now + d
    /\ UNCHANGED <<last_time, cycles>>

\* current_time = time.time(); elapsed = current_time - last_time; the sleep;
\* last_time = time.time()
TimedPace ==
    /\ PacerPace
    /\ now' = now + PaceSleep(now - last_time, frame_time)
    /\ last_time' = now'
    /\ cycles' = cycles + 1
    /\ UNCHANGED sendAt

\* the output thread alone, with the ingest side quiet
NextPace ==
    \/ Start
    \/ TimedOpen
    \/ TimedLoop
    \/ TimedAdapt
    \/ TimedTake
    \/ TimedEmit
    \/ TimedPace

\* the bridge after construction, with one input
InitQuiet ==
    /\ Init
    /\ stream = [first |-> DefaultResolution, cadence |-> 1248,
                 badAt |-> 0, closeAt |-> 0, refused |-> 0, stallAt |-> 0]

SpecPace == InitQuiet /\ [][NextPace]_vars

\* ------------------------------------------------------------ detect_fps alone

\* the intervals between calls of detect_fps: 1 ms, 1/30 s, 41.6 ms, 1/15 s, and
\* the 2 s of start() before a first payload at 41.6 ms
RateIntervals == {30, 1000, 1248, 2000, 61248}

\* detect_fps called after one of the intervals
RateObserve ==
    /\ obs.count < MaxObs
    /\ \E dt \in RateIntervals :
          LET sw == IF obs.count > 0 /\ dt # obs.interval
                    THEN obs.switches + 1 ELSE obs.switches
          IN  /\ sw <= MaxSwitches
              /\ now' = now + dt
              /\ obs' = [count |-> obs.count + 1, interval |-> dt, switches |-> sw]
    /\ LET r == DetectFps(now')
       IN  /\ last_frame_time' = r.last_frame_time
           /\ frame_times' = r.frame_times
           /\ detected_fps' = r.detected_fps
           /\ fps_changed' = r.ret
    /\ UNCHANGED <<running, frame_queue, last_frame, current_resolution, ipc, iframe,
                   received, payload, faults, stream, resChanges, offersSinceTake,
                   pacVars, paceVars, prior>>

NextRate == RateObserve

SpecRate == InitQuiet /\ [][NextRate]_vars

\* ------------------------------------------------------------ a stalled source

\* the payload that arrives after the stall: the first after the window has
\* MinSamples intervals
StallPayload == MinSamples + 1

\* the bridge after construction, with a source that stalls once
InitStall ==
    /\ Constructed
    /\ stream = [first |-> DefaultResolution, cadence |-> 1248,
                 badAt |-> 0, closeAt |-> 0, refused |-> 0, stallAt |-> StallPayload]

\* the whole bridge, fed by the stalling source
SpecStall == InitStall /\ [][Next]_vars

\* ------------------------------------------------------------ estimator and rate check

\* ingest reduced to its calls of detect_fps: after start() one call per payload,
\* the first after the sleep of start() and one arrival interval, the others one
\* arrival interval apart
FollowObserve ==
    /\ ipc = "sleep"
    /\ obs.count < MaxObs
    /\ now' = now + (IF obs.count = 0 THEN StartSleep ELSE 0) + stream.cadence
    /\ obs' = [obs EXCEPT !.count = obs.count + 1, !.interval = stream.cadence]
    /\ LET r == DetectFps(now')
       IN  /\ last_frame_time' = r.last_frame_time
           /\ frame_times' = r.frame_times
           /\ detected_fps' = r.detected_fps
           /\ fps_changed' = r.ret
    /\ UNCHANGED <<running, frame_queue, last_frame, current_resolution, ipc, iframe,
                   received, payload, faults, stream, resChanges, offersSinceTake,
                   pacVars, paceVars, prior>>

\* the estimator and the output thread, with the hand-off left out
NextFollow ==
    \/ Start
    \/ FollowObserve
    \/ PacerOpen /\ Untimed
    \/ PacerLoop /\ Untimed
    \/ PacerAdapt /\ Untimed
    \/ PacerTake /\ Untimed
    \/ PacerEmit /\ Untimed
    \/ PacerPace /\ Untimed

\* the bridge after construction, with a source of 30 frames per second
InitFollow ==
    /\ Constructed
    /\ stream = [first |-> DefaultResolution, cadence |-> 1000,
                 badAt |-> 0, closeAt |-> 0, refused |-> 0, stallAt |-> 0]

SpecFollow == InitFollow /\ [][NextFollow]_vars

\* ------------------------------------------------------------ start() called again

\* start() called again after the earlier call has returned: running = True and
\* a new output thread, with a camera of its own that has accepted nothing yet;
\* the thread of the earlier call is not joined and is now the prior one
Restart ==
    /\ ipc = "done"
    /\ prior = "none"
    /\ running' = TRUE
    /\ prior' = ppc
    /\ ppc' = "start"
    /\ ipc' = "sleep"
    /\ emitted' = NoEmission
    /\ UNCHANGED <<frame_queue, last_frame, current_resolution, estVars, now,
                   iframe, fps_changed, received, payload, faults, stream,
                   resChanges, offersSinceTake, size, current_fps, frame_time,
                   pframe, virtual_cam, paceVars, obs>>

\* a step of the prior output thread, reduced to its position: the opening of
\* its camera, while self.running, the rate check, the take (nothing is pending
\* when no binary payload arrives), cam.send, the sleep
PriorStep ==
    /\ \/ prior = "start" /\ prior' \in {"loop", "failed"}
       \/ prior = "loop" /\ prior' = IF running THEN "adapt" ELSE "stopped"
       \/ prior = "adapt" /\ prior' = "take"
       \/ prior = "take" /\ frame_queue = <<>> /\ prior' = "emit"
       \/ prior = "emit" /\ prior' \in {"pace", "stopped"}
       \/ prior = "pace" /\ prior' = "loop"
    /\ UNCHANGED <<running, frame_queue, last_frame, current_resolution, estVars, now,
                   ingVars, offersSinceTake, pacVars, paceVars, obs>>

\* the bridge started, stopped and started again, with a transport that sends
\* text messages only
NextRestart ==
    \/ Start
    \/ Stop
    \/ Restart
    \/ IngestSleep
    \/ IngestLoop
    \/ IngestConnect
    \/ IngestMessage /\ received' = received
    \/ IngestClose
    \/ IngestClosed
    \/ PacerOpen /\ Untimed
    \/ PacerLoop /\ Untimed
    \/ PacerAdapt /\ Untimed
    \/ PacerTake /\ Untimed
    \/ PacerEmit /\ Untimed
    \/ PacerPace /\ Untimed
    \/ PriorStep

SpecRestart == InitQuiet /\ [][NextRestart]_vars

\* ------------------------------------------------------------ the hand-off

\* the output thread takes a frame (or repeats one) in this step
TakeStep == ppc = "take" /\ ppc' # "take"
\* process_frame's put of its frame ends in this step
OfferReturns == ipc \in {"put", "evict", "reput"} /\ ipc' = "recv"
\* the newest pending frame
Newest(q) == q[Len(q)]
\* the width and height the camera was opened with
SinkSize == <<virtual_cam.width, virtual_cam.height>>

C2_OfferKeepsFrame ==
    [][OfferReturns =>
          \/ \E i \in 1..Len(frame_queue') : frame_queue'[i] = iframe
          \/ last_frame' = iframe]_vars

\* C3: process_frame never waits for the output thread: in every reachable state,
\* whatever the output thread is doing, a process_frame that has begun can take
\* its next step, and no more than QueueMax frames are pending.
C3_IngestNeverBlocked ==
    /\ Len(frame_queue) <= QueueMax
    /\ ipc = "observe" => ENABLED IngestObserve
    /\ ipc = "decode" => ENABLED IngestDecode
    /\ ipc = "put" => ENABLED IngestPut
    /\ ipc = "evict" => ENABLED IngestEvict
    /\ ipc = "reput" => ENABLED IngestRePut

\* C3's case: the output thread has ended (the camera could not be opened), the
\* queue is full, and process_frame is in the branch that makes room.
C3_Witness ==
    /\ ppc = "failed"
    /\ Len(frame_queue) = QueueMax
    /\ ipc = "evict"

\* C4: a take returns the oldest pending frame and records it as last_frame;
\* with nothing pending it returns last_frame if there is one, else the
\* placeholder; it always completes; the placeholder is returned only while no
\* frame was ever taken or sent, and last_frame, once set, stays set.
C4_TakeOrRepeat ==
    /\ [](ppc = "take" => ENABLED PacerTake)
    /\ [][last_frame # NoFrame => last_frame' # NoFrame]_vars
    /\ [][TakeStep =>
             /\ ppc' = "emit"
             /\ frame_queue # <<>> =>
                   /\ pframe' = Head(frame_queue)
                   /\ last_frame' = Head(frame_queue)
                   /\ frame_queue' = Tail(frame_queue)
             /\ (frame_queue = <<>> /\ last_frame # NoFrame) =>
                   /\ pframe' = last_frame
                   /\ UNCHANGED <<frame_queue, last_frame>>
             /\ (frame_queue = <<>> /\ last_frame = NoFrame) =>
                   /\ pframe' = DefaultFrame(size)
                   /\ UNCHANGED <<frame_queue, last_frame>>
             /\ pframe'.id = 0 => (last_frame = NoFrame /\ emitted.id <= 0)]_vars

\* C4's case: with nothing pending, the take repeated the frame that was already
\* sent once.
C4_Witness ==
    /\ ppc = "emit"
    /\ frame_queue = <<>>
    /\ pframe.id >= 1
    /\ pframe = last_frame
    /\ emitted.id = pframe.id

\* C5: every frame the camera accepted has the width and height the camera was
\* opened with; the step that sends emits the frame taken in that cycle, rescaled
\* if its shape differs, unless cam.send raises.
C5_SentMatchesSink ==
    /\ [](emitted # NoEmission => emitted.shape = SinkSize)
    /\ [][(ppc = "emit" /\ ppc' # "emit") =>
             \/ /\ ppc' = "pace"
                /\ virtual_cam.open
                /\ emitted'.id = pframe.id
                /\ emitted'.native = pframe.shape
                /\ emitted'.shape = SinkSize
             \/ /\ ppc' = "stopped"
                /\ emitted' = emitted]_vars

\* C5's case: a decoded frame whose shape differs from the camera's was sent, in
\* the camera's shape.
C5_Witness ==
    /\ emitted.id >= 1
    /\ emitted.native # SinkSize
    /\ emitted.shape = SinkSize
    /\ ppc = "pace"

\* C6, as the claim states it: a frame that arrived after a resolution change is
\* emitted un-rescaled only by a camera that was opened after that change was
\* published.
C6_Reconfigures ==
    (emitted.gen >= 1 /\ emitted.shape = emitted.native) =>
        virtual_cam.gen >= emitted.gen

\* C6, amended: a resolution change never reconfigures the camera.  Once opened,
\* the camera is not opened again and keeps its width and height; a frame is
\* emitted un-rescaled exactly when its resolution is the camera's.
C6_NeverReconfigures ==
    /\ [][virtual_cam.opens >= 1 =>
             /\ virtual_cam'.opens = virtual_cam.opens
             /\ virtual_cam'.width = virtual_cam.width
             /\ virtual_cam'.height = virtual_cam.height]_vars
    /\ [](emitted # NoEmission =>
             (emitted.shape = emitted.native <=> emitted.native = SinkSize))

\* C6's case: ingest published two resolution changes, a frame of the second
\* resolution was emitted, and the camera is still the one opened before them.
C6_Witness ==
    /\ virtual_cam.open
    /\ virtual_cam.opens = 1
    /\ virtual_cam.gen = 0
    /\ emitted.gen = 2
    /\ current_resolution # OtherResolution

\* the rate check of one cycle is made in this step
AdaptStep == ppc = "adapt" /\ ppc' # "adapt"

ObserveStep == obs'.count = obs.count + 1
\* 41.6 ms in ticks: the spacing of a 24 fps source
Cadence24 == (416 * TicksPerSecond) \div 10000
\* one millisecond in ticks
Millisecond == TicksPerSecond \div 1000

\* C8: detect_fps follows the reference steps.  last_frame_time becomes now; an
\* interval of at most 1 ms leaves window and estimate alone; otherwise the
\* interval is appended, the oldest entry leaves if there are then more than 30,
\* and the order is kept; the estimate changes only with at least 10 samples and
\* a candidate 1/mean more than 2.0 fps away, and then becomes the tenth of a
\* frame per second nearest to the candidate; the return value is true exactly
\* when the estimate changed.
C8_ObserveMatchesReference ==
    [][ObserveStep =>
          LET interval == now' - last_frame_time
              old == frame_times
              new == frame_times'
              drop == Len(old) + 1 - Len(new)
              n == Len(new)
              total == Sum(new)
              \* |n / total - estimate| > 2.0, in ticks and tenths
              crosses == /\ n >= 10
                         /\ \/ 10 * n * TicksPerSecond > (detected_fps + 20) * total
                            \/ 10 * n * TicksPerSecond < (detected_fps - 20) * total
          IN  /\ last_frame_time' = now'
              /\ Len(new) <= 30
              /\ interval <= Millisecond =>
                    /\ new = old
                    /\ detected_fps' = detected_fps
                    /\ fps_changed' = FALSE
              /\ interval > Millisecond =>
                    /\ Len(new) = Min(Len(old) + 1, 30)
                    /\ new[Len(new)] = interval
                    /\ \A i \in 1..(Len(new) - 1) : new[i] = old[i + drop]
                    /\ crosses =>
                          \* the nearest tenth: |estimate' - 10 n / total| <= 1/2
                          /\ 2 * detected_fps' * total <= 20 * n * TicksPerSecond + total
                          /\ 2 * detected_fps' * total >= 20 * n * TicksPerSecond - total
                    /\ ~crosses => detected_fps' = detected_fps
                    /\ fps_changed' = crosses
              /\ fps_changed' <=> detected_fps' # detected_fps]_vars

\* C8's case: with 30 intervals in the window one more call evicted the oldest
\* and changed the estimate.
C8_Witness ==
    /\ obs.count > 30
    /\ Len(frame_times) = 30
    /\ fps_changed
    /\ frame_times[1] # frame_times[30]

\* C9, as the claim states it: with payloads 41.6 ms apart after whatever delay
\* preceded the first one, the estimate lies in [22, 26] fps once the window
\* holds 10 samples, and from then on.
C9_EstimateInBand ==
    (/\ Len(frame_times) >= 10
     /\ \A i \in 2..Len(frame_times) : frame_times[i] = Cadence24) =>
        (220 <= detected_fps /\ detected_fps <= 260)

\* ------------------------------------------------------------ the pacing

\* the scheduling tolerance allowed to C10: one millisecond
SchedTolerance == Millisecond

\* C10, as the claim states it: two consecutive calls of cam.send made at the
\* same pacing rate are at least 1/rate apart, up to the tolerance.
C10_NeverFaster ==
    (sendAt.count >= 2 /\ sendAt.fps = sendAt.prevFps) =>
        (sendAt.last - sendAt.prev + SchedTolerance) * sendAt.fps >= 10 * TicksPerSecond

\* ------------------------------------------------------------ a gap in the input

\* the output thread is inside its while loop
InLoop == ppc \in {"loop", "adapt", "take", "emit", "pace"}
\* a step of the output thread while ingest awaits the next message
GapStep == ipc = "recv" /\ ipc' = "recv" /\ ppc' # ppc

\* C11, as the claim states it: while ingest awaits the next message and running
\* is set, the output loop goes on (it ends only when cam.send raises), and with
\* nothing pending every frame it sends is last_frame, the frame stored last.
C11_KeepsEmittingLast ==
    [][(GapStep /\ running /\ InLoop) =>
          /\ ppc' = "stopped" => ppc = "emit"
          /\ (ppc = "emit" /\ ppc' = "pace" /\ frame_queue = <<>> /\ last_frame # NoFrame) =>
                emitted'.id = last_frame.id]_vars

\* ------------------------------------------------------------ failures

\* C12: a payload that does not decode is skipped.  The steps process_frame
\* makes on it leave the queue, the published resolution and the connection
\* alone and end with connect_websocket awaiting the next message, which it can
\* always take; the payload after it is decoded under its own number and
\* resolution and goes on to the put.
C12_BadPayloadSkipped ==
    /\ [][(payload = "bad" /\ ipc \in {"observe", "decode"} /\ ipc' # ipc) =>
             /\ UNCHANGED <<frame_queue, current_resolution, resChanges, faults, received>>
             /\ ipc' = IF ipc = "observe" THEN "decode" ELSE "recv"]_vars
    /\ [](ipc = "recv" => ENABLED IngestMessage)
    /\ [][(ipc = "decode" /\ ipc' # ipc /\ stream.badAt # 0
            /\ received = stream.badAt + 1) =>
             /\ ipc' = "put"
             /\ iframe'.id = received
             /\ iframe'.shape = PayloadRes(received)
             /\ current_resolution' = PayloadRes(received)
             /\ UNCHANGED faults]_vars

\* C12's case: payload 2 did not decode, and payload 3, received on the same
\* connection, is pending in the queue.
C12_Witness ==
    /\ stream.badAt = 2
    /\ received = 3
    /\ faults = 0
    /\ ipc = "recv"
    /\ frame_queue # <<>>
    /\ Newest(frame_queue).id = 3

\* C13: the retry of start().  A refused connect and a closed connection both
\* end connect_websocket; start() then sleeps RetrySleep if running is set (and
\* not at all if it is cleared) and returns to its loop test, whatever the
\* number of failures so far; the loop test leads to a new connect exactly when
\* it finds running set, and once it found running cleared start() has returned
\* and connects no more.  None of these steps ever has to wait.
C13_ReconnectPolicy ==
    /\ [][faults' # faults => (faults' = faults + 1 /\ ipc' = "closed")]_vars
    /\ [][(ipc = "closed" /\ ipc' # ipc) =>
             /\ ipc' = "loop"
             /\ now' = now + (IF running THEN RetrySleep ELSE 0)]_vars
    /\ [][(ipc = "loop" /\ ipc' # ipc) =>
             ipc' = IF running THEN "connect" ELSE "done"]_vars
    /\ [][ipc = "done" => (ipc' = "done" /\ faults' = faults)]_vars
    /\ [](ipc = "closed" => ENABLED IngestClosed)
    /\ [](ipc = "loop" => ENABLED IngestLoop)
    /\ [](ipc = "connect" => ENABLED IngestConnect)

\* C13's case: a connect was refused and a later connection was closed; after
\* the second failure start() connected again and payload 4 arrived on the
\* third connection.
C13_Witness ==
    /\ running
    /\ faults = 2
    /\ ipc = "observe"
    /\ received = 4

\* the output thread has returned
PacerEnded == ppc \in {"failed", "stopped"}

\* C15: a failure of the camera ends the output thread.  If the camera cannot be
\* opened the thread ends with no camera opened and no frame sent; a cam.send
\* that raises ends the loop and closes the camera, with nothing sent by that
\* call; a thread that has ended sends nothing more and opens no camera, and no
\* thread opens a camera twice.
C15_SinkFailureFatal ==
    /\ [](ppc = "failed" => (emitted = NoEmission /\ virtual_cam.opens = 0))
    /\ [](virtual_cam.opens <= 1)
    /\ [][(ppc = "start" /\ ppc' # ppc) =>
             \/ ppc' = "loop" /\ virtual_cam'.open /\ virtual_cam'.opens = 1
             \/ ppc' = "failed" /\ virtual_cam' = virtual_cam]_vars
    /\ [][(ppc = "emit" /\ ppc' # ppc /\ ppc' # "pace") =>
             /\ ppc' = "stopped"
             /\ emitted' = emitted
             /\ ~virtual_cam'.open]_vars
    /\ [][PacerEnded => UNCHANGED <<ppc, emitted, virtual_cam>>]_vars

\* C15's case: cam.send raised after frames had been sent; running is still set
\* and frames are pending, the output thread has ended and its camera is closed.
C15_Witness ==
    /\ ppc = "stopped"
    /\ running
    /\ emitted.id >= 1
    /\ frame_queue # <<>>
    /\ virtual_cam.opens = 1
    /\ ~virtual_cam.open

\* C16, as the claim states it: the steps process_frame makes on a payload that
\* does not decode leave the window, last_frame_time and the estimate alone.
C16_DecodedFramesOnly ==
    [][(payload = "bad" /\ ipc \in {"observe", "decode"} /\ ipc' # ipc) =>
          UNCHANGED <<frame_times, last_frame_time, detected_fps>>]_vars

\* C17, as the claim states it: the published estimate is above 0 in every
\* reachable state, and no rate check ends the output loop.
C17_EstimatePositive ==
    /\ [](detected_fps > 0)
    /\ [][AdaptStep => ppc' = "take"]_vars

\* ------------------------------------------------------------ the order of frames

\* C18: frames reach the camera in the order their payloads arrived.  The number
\* of the payload whose frame was sent last never decreases once a decoded frame
\* was sent (the same frame may be sent again); the pending frames are in
\* arrival order and all of them are later than the frame taken last, so a frame
\* that was evicted or passed over is not sent afterwards.
C18_ArrivalOrder ==
    /\ [][emitted.id >= 1 => emitted'.id >= emitted.id]_vars
    /\ [](\A i \in 1..Len(frame_queue) : \A j \in 1..Len(frame_queue) :
             i < j => frame_queue[i].id < frame_queue[j].id)
    /\ [](frame_queue # <<>> =>
             (last_frame.id < Head(frame_queue).id /\ pframe.id < Head(frame_queue).id))
    /\ [](emitted.id <= pframe.id \/ ppc \in {"none", "start", "failed"})

\* C18's case: every payload decodes, the frame sent last is frame 1 and the
\* oldest pending frame is later than frame 2, which was evicted while the
\* output thread was between two takes.
C18_Witness ==
    /\ stream.badAt = 0
    /\ emitted.id = 1
    /\ pframe.id = 1
    /\ frame_queue # <<>>
    /\ Head(frame_queue).id > 2

\* ------------------------------------------------------------ the estimate and the pacer

\* C19, as the claim states it: the rate check is the only step that sets the
\* pacing rate, and it is the same for as long as the estimate stays; so every
\* rate check leaves the pacing rate equal to the estimate published last.
C19_TargetReachesEstimate ==
    [][AdaptStep => current_fps' = detected_fps]_vars

\* C19, amended: every rate check leaves the pacing rate at most 2.0 fps from
\* the estimate published last: equal to it when the two were more than 2.0
\* apart, and unchanged otherwise; no other step of the loop changes the pacing
\* rate.
C19_TargetWithinThreshold ==
    /\ [][AdaptStep =>
             /\ Abs(current_fps' - detected_fps) <= FpsThreshold
             /\ current_fps' \in {current_fps, detected_fps}
             /\ current_fps' # current_fps => Abs(detected_fps - current_fps) > FpsThreshold]_vars
    /\ [][(InLoop /\ ~AdaptStep) => current_fps' = current_fps]_vars

\* C19's case: detect_fps published a change, the output thread, which paces at
\* an estimate it took earlier, has made its rate check since, and its pacing
\* rate is not the estimate.
C19_Witness ==
    /\ fps_changed
    /\ ppc = "take"
    /\ current_fps # detected_fps
    /\ Abs(current_fps - DefaultFps) > FpsThreshold
    /\ Abs(detected_fps - DefaultFps) > FpsThreshold

\* ------------------------------------------------------------ stopping

\* the steps the program takes by itself: every step but the calls of start()
\* and stop() and the arrival of a message or of a close from the transport
OwnStep ==
    \/ IngestSleep
    \/ IngestLoop
    \/ IngestConnect
    \/ IngestClosed
    \/ IngestObserve
    \/ IngestDecode
    \/ IngestPut
    \/ IngestEvict
    \/ IngestRePut
    \/ PacerOpen /\ Untimed
    \/ PacerLoop /\ Untimed
    \/ PacerAdapt /\ Untimed
    \/ PacerTake /\ Untimed
    \/ PacerEmit /\ Untimed
    \/ PacerPace /\ Untimed

\* the ingest coroutine and the output thread are each scheduled again and
\* again; the transport owes nothing
StepsFair ==
    /\ WF_vars(OwnStep /\ ipc' # ipc)
    /\ WF_vars(OwnStep /\ ppc' # ppc)

\* the whole bridge under fair scheduling
SpecStop == InitQuiet /\ [][Next]_vars /\ StepsFair

\* both units have ended
BothEnded == ipc = "done" /\ ppc \in {"failed", "stopped"}

\* C14, as the claim states it: once stop() has cleared running, the output
\* loop and start() both end, whatever the transport does.
C14_StopEndsBoth ==
    (ipc # "init" /\ ~running) ~> BothEnded

\* ------------------------------------------------------------ one output thread

\* C20, as the claim states it: once the output thread of the later start() has
\* sent a frame, the output thread of the earlier start() sends no more.
C20_OnePacer ==
    [][(prior = "emit" /\ prior' = "pace") => emitted = NoEmission]_vars

====
